---- MODULE Spec2Model ----
(***************************************************************************)
(* Model of openhands/core/message.py: the typed content blocks, the      *)
(* per-message serializer (2x2 format matrix), the function-call text     *)
(* encoder and the native -> non-native conversation rewriter.            *)
(*                                                                         *)
(* Representation of Python values:                                        *)
(*   - a str is a sequence of symbols (Text); a symbol is one character,  *)
(*     or one literal that the code emits as a unit ("<parameter=", ...);  *)
(*   - a dict is a record holding exactly the keys that are present, so   *)
(*     `k in d` is  k \in DOMAIN d;                                        *)
(*   - a value whose Python type is tested at run time (isinstance) is    *)
(*     tagged: Str(s), List(l), None, Num(n), Bool(b), Dict(items);        *)
(*   - a call that may raise yields Ok(value) or Raise(type, message).     *)
(***************************************************************************)
EXTENDS Integers, Sequences, FiniteSets, TLC

VARIABLES
    messages,                        \* caller's raw message list, per invocation
    tools,                           \* caller's tool schema list, per invocation
    pc,                              \* position of each rewriter invocation
    pos,                             \* index of the loop `for message in messages`
    system_prompt_suffix,            \* local of convert_messages_to_non_native
    converted_messages,              \* local of convert_messages_to_non_native
    first_user_message_encountered,  \* local of convert_messages_to_non_native
    result,                          \* what each invocation handed to its caller
    message,                         \* Message object under serialization
    serialized,                      \* outcome of Message.serialize_model
    tool_call,                       \* ToolCallContent objects under encoding
    encoded                          \* outcome of to_string_format per object

vars == <<messages, tools, pc, pos, system_prompt_suffix, converted_messages,
          first_user_message_encountered, result, message, serialized,
          tool_call, encoded>>

rewriterVars == <<messages, tools, pc, pos, system_prompt_suffix,
                  converted_messages, first_user_message_encountered, result>>
serializerVars == <<message, serialized>>
codecVars == <<tool_call, encoded>>

---------------------------------------------------------------------------
(* Bounds *)

MaxLen == 3        \* longest raw message list of a single rewriter invocation
MaxLenConc == 2    \* longest raw message list of two interleaved invocations
MaxBlocks == 2     \* most content blocks of a serialized Message

---------------------------------------------------------------------------
(* Python values *)

Str(s) == [t |-> "str", v |-> s]
List(l) == [t |-> "list", v |-> l]
Num(n) == [t |-> "int", v |-> n]
Bool(b) == [t |-> "bool", v |-> b]
Dict(items) == [t |-> "dict", v |-> items]
None == [t |-> "none"]

Ok(value) == [ok |-> TRUE, value |-> value]
Raise(type, msg) == [ok |-> FALSE, error |-> [type |-> type, message |-> msg]]

NL == "\n"

RECURSIVE Join(_, _)
\* sep.join(parts), parts a sequence of Text
Join(parts, sep) ==
    IF parts = <<>> THEN <<>>
    ELSE IF Len(parts) = 1 THEN parts[1]
    ELSE parts[1] \o sep \o Join(Tail(parts), sep)

RECURSIVE Concat(_)
\* concatenation of a sequence of sequences
Concat(seqs) == IF seqs = <<>> THEN <<>> ELSE Head(seqs) \o Concat(Tail(seqs))

\* f'{value}' for a value produced by json.loads
Format(value) ==
    CASE value.t = "str" -> value.v
      [] value.t = "int" -> <<ToString(value.v)>>
      [] value.t = "bool" -> IF value.v THEN <<"True">> ELSE <<"False">>
      [] value.t = "none" -> <<"None">>

\* truthiness of `message.get('content')`
Truthy(value) ==
    CASE value.t = "none" -> FALSE
      [] value.t = "str" -> value.v # <<>>
      [] value.t = "list" -> value.v # <<>>

---------------------------------------------------------------------------
(* json.loads on the argument strings the model uses *)

ARGS_EMPTY == <<"{}">>
ARGS_A_STR == <<"{\"a\": \"1\"}">>
ARGS_A_INT == <<"{\"a\": 1}">>
ARGS_A_TRUE == <<"{\"a\": true}">>
ARGS_CMD_MULTILINE == <<"{\"cmd\": \"ls\\nhi\"}">>
ARGS_TWO_PARAMS == <<"{\"a\": \"p\\np\", \"b\": \"q\\nq\"}">>
ARGS_TAGS_IN_VALUE ==
    <<"{\"a\": \"p\\np\\n</parameter>\\n<parameter=b>\\nq\\nq\"}">>
ARGS_ARRAY == <<"[]">>
ARGS_NOT_JSON == <<"{cmd: ls">>

json_loads(s) ==
    CASE s = ARGS_EMPTY -> Ok(Dict(<<>>))
      [] s = ARGS_A_STR -> Ok(Dict(<< <<<<"a">>, Str(<<"1">>)>> >>))
      [] s = ARGS_A_INT -> Ok(Dict(<< <<<<"a">>, Num(1)>> >>))
      [] s = ARGS_A_TRUE -> Ok(Dict(<< <<<<"a">>, Bool(TRUE)>> >>))
      [] s = ARGS_CMD_MULTILINE ->
            Ok(Dict(<< <<<<"c", "m", "d">>, Str(<<"l", "s", NL, "h", "i">>)>> >>))
      [] s = ARGS_TWO_PARAMS ->
            Ok(Dict(<< <<<<"a">>, Str(<<"p", NL, "p">>)>>,
                       <<<<"b">>, Str(<<"q", NL, "q">>)>> >>))
      [] s = ARGS_TAGS_IN_VALUE ->
            Ok(Dict(<< <<<<"a">>,
                         Str(<<"p", NL, "p", NL, "</parameter>", NL,
                               "<parameter=", "b", ">", NL, "q", NL, "q">>)>> >>))
      [] s = ARGS_ARRAY -> Ok(List(<<>>))
      [] OTHER -> Raise("JSONDecodeError", <<"Expecting property name">>)

---------------------------------------------------------------------------
(* Content blocks *)

TextContent(text, cache_prompt) ==
    [type |-> "text", text |-> text, cache_prompt |-> cache_prompt]

ImageContent(image_urls, cache_prompt) ==
    [type |-> "image_url", image_urls |-> image_urls, cache_prompt |-> cache_prompt]

ToolCallContent(function_name, function_arguments, tool_call_id) ==
    [type |-> "tool_call", function_name |-> function_name,
     function_arguments |-> function_arguments, tool_call_id |-> tool_call_id,
     cache_prompt |-> FALSE]

ToolResponseContent(tool_call_id, name, content) ==
    [type |-> "tool_response", tool_call_id |-> tool_call_id, name |-> name,
     content |-> content, cache_prompt |-> FALSE]

CACHE_CONTROL == [type |-> "ephemeral"]

TextContent_serialize_model(self) ==
    IF self.cache_prompt
    THEN [type |-> self.type, text |-> self.text, cache_control |-> CACHE_CONTROL]
    ELSE [type |-> self.type, text |-> self.text]

ImageContent_serialize_model(self) ==
    LET n == Len(self.image_urls)
        image(i) == [type |-> self.type, image_url |-> [url |-> self.image_urls[i]]]
    IN [i \in 1..n |->
          IF self.cache_prompt /\ i = n
          THEN [type |-> self.type, image_url |-> [url |-> self.image_urls[i]],
                cache_control |-> CACHE_CONTROL]
          ELSE image(i)]

\* the entry of a native tool_calls list
NativeToolCall(id, name, arguments) ==
    [id |-> id, type |-> "function",
     function |-> [name |-> name, arguments |-> arguments]]

ToolCallContent_serialize_model(self) ==
    [type |-> self.type,
     tool_calls |-> <<NativeToolCall(self.tool_call_id, self.function_name,
                                     self.function_arguments)>>]

ToolResponseContent_serialize_model(self) ==
    [type |-> self.type, content |-> self.content]

\* item.serialize_model() followed by append (extend for an ImageContent):
\* the fragments one block contributes to list-format content
ListFragments(item) ==
    CASE item.type = "text" -> <<TextContent_serialize_model(item)>>
      [] item.type = "image_url" -> ImageContent_serialize_model(item)
      [] item.type = "tool_call" -> <<ToolCallContent_serialize_model(item)>>
      [] item.type = "tool_response" -> <<ToolResponseContent_serialize_model(item)>>

---------------------------------------------------------------------------
(* Function-call text encoding *)

\* isinstance(param_value, str) and '\n' in param_value
is_multiline(param_value) ==
    param_value.t = "str" /\ \E i \in 1..Len(param_value.v) : param_value.v[i] = NL

\* the text one (param_name, param_value) pair adds to ret
ParameterText(param_name, param_value) ==
    <<"<parameter=">> \o param_name \o <<">">>
        \o (IF is_multiline(param_value) THEN <<NL>> ELSE <<>>)
        \o Format(param_value)
        \o (IF is_multiline(param_value) THEN <<NL>> ELSE <<>>)
        \o <<"</parameter>", NL>>

\* The name FunctionCallConversionError is bound nowhere in the module: the
\* imports bring in three prompt constants only.  Evaluating
\* `raise FunctionCallConversionError(...)` therefore raises NameError.
FunctionCallConversionError_raise(function_arguments) ==
    Raise("NameError", <<"name 'FunctionCallConversionError' is not defined">>)

ToolCallContent_to_string_format(self) ==
    LET args == json_loads(self.function_arguments)
        head == <<"<function=">> \o self.function_name \o <<">", NL>>
    IN IF ~args.ok
       THEN FunctionCallConversionError_raise(self.function_arguments)
       ELSE IF args.value.t # "dict"
       THEN Raise("AttributeError", <<"object has no attribute 'items'">>)
       ELSE Ok(head
               \o Concat([i \in 1..Len(args.value.v) |->
                            ParameterText(args.value.v[i][1], args.value.v[i][2])])
               \o <<"</function>">>)

ToolResponseContent_to_string_format(self) ==
    <<"EXECUTION RESULT of [">> \o self.name \o <<"]:", NL>> \o self.content

---------------------------------------------------------------------------
(* Message and its serializers *)

Message(role, content, cache_enabled, vision_enabled, function_calling_enabled) ==
    [role |-> role, content |-> content, cache_enabled |-> cache_enabled,
     vision_enabled |-> vision_enabled,
     function_calling_enabled |-> function_calling_enabled]

\* mutation of StringPart: an ImageContent contributes its URLs
StringPartKeepsImages(item) ==
    CASE item.type = "text" -> Ok(<<item.text>>)
      [] item.type = "tool_call" ->
            LET r == ToolCallContent_to_string_format(item)
            IN IF r.ok THEN Ok(<<r.value>>) ELSE r
      [] item.type = "tool_response" ->
            Ok(<<ToolResponseContent_to_string_format(item)>>)
      [] item.type = "image_url" -> Ok(item.image_urls)

\* what one block appends to content_parts in string format
StringPart(item) ==
    CASE item.type = "text" -> Ok(<<item.text>>)
      [] item.type = "tool_call" ->
            LET r == ToolCallContent_to_string_format(item)
            IN IF r.ok THEN Ok(<<r.value>>) ELSE r
      [] item.type = "tool_response" ->
            Ok(<<ToolResponseContent_to_string_format(item)>>)
      [] item.type = "image_url" -> Ok(<<>>)

\* the list-format content: every block's fragments, in block order
ListContent(content) ==
    Concat([i \in 1..Len(content) |-> ListFragments(content[i])])

_string_function_serializer(self, use_list_format) ==
    IF use_list_format
    THEN Ok([role |-> self.role, content |-> List(ListContent(self.content))])
    ELSE LET part(i) == StringPart(self.content[i])
             failed == {i \in 1..Len(self.content) : ~part(i).ok}
             first == CHOOSE i \in failed : \A j \in failed : i <= j
         IN IF failed # {}
            THEN part(first)
            ELSE Ok([role |-> self.role,
                     content |-> Str(Join(Concat([i \in 1..Len(self.content) |->
                                                    part(i).value]), <<NL>>))])

\* mutation of FirstOfType: the last block of the type wins
LastOfType(content, type) ==
    LET found == {i \in 1..Len(content) : content[i].type = type}
    IN IF found = {} THEN 0 ELSE CHOOSE i \in found : \A j \in found : i >= j

\* next((c for c in self.content if isinstance(c, T)), None): index of the
\* first block of the type, 0 for None
FirstOfType(content, type) ==
    LET found == {i \in 1..Len(content) : content[i].type = type}
    IN IF found = {} THEN 0 ELSE CHOOSE i \in found : \A j \in found : i <= j

\* the Text blocks of a content sequence, in order
RECURSIVE TextsOf(_)
TextsOf(content) ==
    IF content = <<>> THEN <<>>
    ELSE (IF Head(content).type = "text" THEN <<Head(content).text>> ELSE <<>>)
         \o TextsOf(Tail(content))

_native_function_serializer(self, use_list_format) ==
    LET c == FirstOfType(self.content, "tool_call")
        r == FirstOfType(self.content, "tool_response")
    IN IF c # 0
       THEN Ok([role |-> self.role, content |-> None,
                tool_calls |-> <<NativeToolCall(self.content[c].tool_call_id,
                                                self.content[c].function_name,
                                                self.content[c].function_arguments)>>])
       ELSE IF r # 0
       THEN Ok([role |-> self.role, content |-> Str(self.content[r].content),
                tool_call_id |-> self.content[r].tool_call_id,
                name |-> self.content[r].name])
       ELSE IF use_list_format
       THEN Ok([role |-> self.role, content |-> List(ListContent(self.content))])
       ELSE Ok([role |-> self.role,
                content |-> Str(Join(TextsOf(self.content), <<NL>>))])

\* mutation of needs_list_format: the cache flag is ignored
needs_list_format_vision_only(self) == self.vision_enabled

needs_list_format(self) == self.cache_enabled \/ self.vision_enabled

Message_serialize_model(self) ==
    IF self.function_calling_enabled
    THEN _native_function_serializer(self, needs_list_format(self))
    ELSE _string_function_serializer(self, needs_list_format(self))

---------------------------------------------------------------------------
(* Tool-description renderer *)

\* dict.get(key, default) on a record
Get(d, key, default) == IF key \in DOMAIN d THEN d[key] ELSE default

\* the backquote character, which a TLA+ string cannot hold
BACKTICK == "<backquote>"

\* one line of the Parameters section; j is 1-based
ParameterLine(j, param_name, param_info, required_params) ==
    LET param_status == IF param_name \in required_params
                        THEN <<"required">> ELSE <<"optional">>
        param_type == Get(param_info, "type", <<"string">>)
        desc0 == Get(param_info, "description", <<"No description provided">>)
        desc == IF "enum" \in DOMAIN param_info
                THEN desc0 \o <<NL, "Allowed values: [">>
                     \o Join([k \in 1..Len(param_info.enum) |->
                                <<BACKTICK>> \o param_info.enum[k] \o <<BACKTICK>>], <<", ">>)
                     \o <<"]">>
                ELSE desc0
    IN <<"  (", ToString(j), ") ">> \o param_name \o <<" (">> \o param_type
       \o <<", ">> \o param_status \o <<"): ">> \o desc \o <<NL>>

\* the text of tool number i (1-based)
ToolText(i, tool) ==
    LET fn == tool.function
        properties == Get(fn.parameters, "properties", <<>>)
        required == Get(fn.parameters, "required", <<>>)
        required_params == {required[k] : k \in 1..Len(required)}
    IN (IF i > 1 THEN <<NL>> ELSE <<>>)
       \o <<"---- BEGIN FUNCTION #", ToString(i), ": ">> \o fn.name \o <<" ----", NL>>
       \o <<"Description: ">> \o fn.description \o <<NL>>
       \o (IF "parameters" \in DOMAIN fn
           THEN <<"Parameters:", NL>>
                \o Concat([j \in 1..Len(properties) |->
                             ParameterLine(j, properties[j][1], properties[j][2],
                                           required_params)])
           ELSE <<"No parameters are required for this function.", NL>>)
       \o <<"---- END FUNCTION #", ToString(i), " ----", NL>>

_tools_to_description(tool_list) ==
    IF \E i \in 1..Len(tool_list) : tool_list[i].type # "function"
    THEN Raise("AssertionError", <<>>)
    ELSE Ok(Concat([i \in 1..Len(tool_list) |-> ToolText(i, tool_list[i])]))

---------------------------------------------------------------------------
(* Prompt constants imported from openhands.llm.fn_call_converter *)

IN_CONTEXT_LEARNING_EXAMPLE_PREFIX == <<"[EXAMPLE PREFIX]">>
IN_CONTEXT_LEARNING_EXAMPLE_SUFFIX == <<"[EXAMPLE SUFFIX]">>

\* SYSTEM_PROMPT_SUFFIX_TEMPLATE.format(description=description)
SYSTEM_PROMPT_SUFFIX_TEMPLATE_format(description) ==
    <<"[SYSTEM SUFFIX HEAD]">> \o description \o <<"[SYSTEM SUFFIX TAIL]">>

---------------------------------------------------------------------------
(* Conversation rewriter: the body of `for message in messages` *)

\* Message(...).model_dump()
model_dump(self) == Message_serialize_model(self)

\* TextContent(...) if item['type'] == 'text' else ImageContent(...), per item
ContentBlocksOf(items) ==
    [i \in 1..Len(items) |->
        IF items[i].type = "text"
        THEN TextContent(items[i].text, FALSE)
        ELSE ImageContent(<<items[i].image_url.url>>, FALSE)]

SystemBranch(raw, suffix) ==
    LET content == Get(raw, "content", Str(<<>>))
        content_list ==
            IF content.t = "str"
            THEN <<TextContent(content.v \o suffix, FALSE)>>
            ELSE IF content.t = "list"
            THEN ContentBlocksOf(content.v) \o <<TextContent(suffix, FALSE)>>
            ELSE <<>>
    IN model_dump(Message("system", content_list, FALSE, FALSE, FALSE))

FirstUserBranch(raw) ==
    LET content == Get(raw, "content", Str(<<>>))
        content_list ==
            IF content.t = "str"
            THEN <<TextContent(IN_CONTEXT_LEARNING_EXAMPLE_PREFIX \o content.v
                               \o IN_CONTEXT_LEARNING_EXAMPLE_SUFFIX, FALSE)>>
            ELSE IF content.t = "list"
            THEN <<TextContent(IN_CONTEXT_LEARNING_EXAMPLE_PREFIX, FALSE)>>
                 \o ContentBlocksOf(content.v)
                 \o <<TextContent(IN_CONTEXT_LEARNING_EXAMPLE_SUFFIX, FALSE)>>
            ELSE <<>>
    IN model_dump(Message("user", content_list, FALSE, FALSE, FALSE))

\* mutation of CardinalityOk: several tool calls are accepted
CardinalityAtLeastOne(tool_calls) == Len(tool_calls) >= 1

\* the negation of `len(tool_calls) != 1`
CardinalityOk(tool_calls) == Len(tool_calls) = 1

ToolCallBranch(raw) ==
    LET tool_calls == raw.tool_calls
        content == Get(raw, "content", None)
        content_list ==
            (IF Truthy(content) THEN <<TextContent(content.v, FALSE)>> ELSE <<>>)
            \o <<ToolCallContent(tool_calls[1].function.name,
                                 tool_calls[1].function.arguments,
                                 tool_calls[1].id)>>
    IN IF ~CardinalityOk(tool_calls)
       THEN Raise("ValueError",
                  <<"Expected exactly one tool call, got ", ToString(Len(tool_calls))>>)
       ELSE model_dump(Message("assistant", content_list, FALSE, FALSE, FALSE))

ToolResponseBranch(raw) ==
    model_dump(Message("tool",
                       <<ToolResponseContent(raw.tool_call_id,
                                             Get(raw, "name", <<"function">>),
                                             raw.content.v)>>,
                       FALSE, FALSE, FALSE))

\* mutation of IsFirstUser: the flag is not consulted
IsAnyUser(raw, encountered) == raw.role = "user"

\* role == 'user' and not first_user_message_encountered
IsFirstUser(raw, encountered) == raw.role = "user" /\ ~encountered

\* mutation of PassThrough: the raw message is dropped
PassThroughDropped(raw) == <<>>

\* converted_messages.append(message): the entries the last branch appends
PassThrough(raw) == <<raw>>

\* One iteration.  `outcome` is Ok(entries appended to converted_messages) or
\* the exception that leaves the loop; `encountered` is the flag afterwards.
LoopBody(raw, encountered, suffix) ==
    LET dumped(r) == IF r.ok THEN Ok(<<r.value>>) ELSE r
    IN IF raw.role = "system"
       THEN [outcome |-> dumped(SystemBranch(raw, suffix)),
             encountered |-> encountered]
       ELSE IF IsFirstUser(raw, encountered)
       THEN [outcome |-> dumped(FirstUserBranch(raw)), encountered |-> TRUE]
       ELSE IF raw.role = "assistant" /\ "tool_calls" \in DOMAIN raw
       THEN [outcome |-> dumped(ToolCallBranch(raw)), encountered |-> encountered]
       ELSE IF raw.role = "tool"
       THEN [outcome |-> dumped(ToolResponseBranch(raw)),
             encountered |-> encountered]
       ELSE [outcome |-> Ok(PassThrough(raw)), encountered |-> encountered]

---------------------------------------------------------------------------
(* The rewriter as a function of its arguments *)

RECURSIVE ConvertFrom(_, _, _, _, _)
\* the loop from index i on, with the locals as they stand
ConvertFrom(list, i, converted, encountered, suffix) ==
    IF i > Len(list) THEN Ok(List(converted))
    ELSE LET body == LoopBody(list[i], encountered, suffix)
         IN IF body.outcome.ok
            THEN ConvertFrom(list, i + 1, converted \o body.outcome.value,
                             body.encountered, suffix)
            ELSE body.outcome

convert_messages_to_non_native(list, tool_list) ==
    LET formatted_tools == _tools_to_description(tool_list)
    IN IF formatted_tools.ok
       THEN ConvertFrom(list, 1, <<>>, FALSE,
                        SYSTEM_PROMPT_SUFFIX_TEMPLATE_format(formatted_tools.value))
       ELSE formatted_tools

---------------------------------------------------------------------------
(* Inputs *)

SeqUpTo(S, n) == UNION {[1..k -> S] : k \in 0..n}

TextItem(text) == [type |-> "text", text |-> text]
ImageItem(url) == [type |-> "image_url", image_url |-> [url |-> url]]

URL_U == <<"http://u.png">>
URL_W == <<"http://w.png">>

FN_LS == <<"l", "s">>
FN_RUN == <<"r", "u", "n">>

SystemMessages ==
    { [role |-> "system", content |-> Str(<<"S">>)],
      [role |-> "system",
       content |-> List(<<TextItem(<<"a">>), ImageItem(URL_U), TextItem(<<"b">>)>>)] }

UserMessages ==
    { [role |-> "user", content |-> Str(<<"h", "i">>)],
      [role |-> "user",
       content |-> List(<<ImageItem(URL_U), TextItem(<<"c">>), TextItem(<<"d">>)>>)],
      [role |-> "user"] }

AssistantMessages ==
    { [role |-> "assistant", content |-> Str(<<"o", "k">>)],
      [role |-> "assistant",
       tool_calls |-> <<NativeToolCall(<<"1">>, FN_LS, ARGS_EMPTY)>>],
      [role |-> "assistant", content |-> None,
       tool_calls |-> <<NativeToolCall(<<"2">>, FN_RUN, ARGS_A_INT)>>],
      [role |-> "assistant", content |-> Str(<<"g", "o">>),
       tool_calls |-> <<NativeToolCall(<<"3">>, FN_RUN, ARGS_CMD_MULTILINE)>>],
      [role |-> "assistant",
       tool_calls |-> <<NativeToolCall(<<"4">>, FN_RUN, ARGS_NOT_JSON)>>],
      [role |-> "assistant", content |-> Str(<<"n", "o">>), tool_calls |-> <<>>],
      [role |-> "assistant",
       tool_calls |-> <<NativeToolCall(<<"5">>, FN_LS, ARGS_EMPTY),
                        NativeToolCall(<<"6">>, FN_RUN, ARGS_A_STR)>>] }

ToolMessages ==
    { [role |-> "tool", tool_call_id |-> <<"1">>, name |-> FN_LS,
       content |-> Str(<<"a", ".", "t">>)],
      [role |-> "tool", tool_call_id |-> <<"2">>, content |-> Str(<<"0">>)] }

RawMessages == SystemMessages \cup UserMessages \cup AssistantMessages \cup ToolMessages

\* the raw messages of the two interleaved invocations
ConcMessages ==
    { [role |-> "system", content |-> Str(<<"S">>)],
      [role |-> "user", content |-> Str(<<"h", "i">>)],
      [role |-> "user", content |-> Str(<<"y", "o">>)],
      [role |-> "assistant", content |-> Str(<<"o", "k">>)],
      [role |-> "assistant",
       tool_calls |-> <<NativeToolCall(<<"5">>, FN_LS, ARGS_EMPTY),
                        NativeToolCall(<<"6">>, FN_RUN, ARGS_A_STR)>>] }

TOOL_LS ==
    [type |-> "function",
     function |-> [name |-> FN_LS, description |-> <<"List files">>]]

TOOL_RUN ==
    [type |-> "function",
     function |->
        [name |-> FN_RUN, description |-> <<"Run a command">>,
         parameters |->
            [properties |->
                << <<<<"c", "m", "d">>,
                     [type |-> <<"string">>, description |-> <<"The command">>]>>,
                   <<<<"m", "o", "d", "e">>,
                     [enum |-> << <<"fast">>, <<"slow">> >>]>> >>,
             required |-> << <<"c", "m", "d">> >>]]]

TOOL_NOT_FUNCTION ==
    [type |-> "retrieval",
     function |-> [name |-> FN_LS, description |-> <<"List files">>]]

ToolLists ==
    { <<>>, <<TOOL_LS>>, <<TOOL_LS, TOOL_RUN>>, <<TOOL_RUN, TOOL_NOT_FUNCTION>> }

ConcToolLists == { <<TOOL_LS>> }

Blocks ==
    { TextContent(<<"h", "i">>, FALSE),
      TextContent(<<"y", "o">>, TRUE),
      ImageContent(<<URL_U, URL_W>>, TRUE),
      ImageContent(<<URL_U>>, FALSE),
      ToolCallContent(FN_LS, ARGS_EMPTY, <<"1">>),
      ToolCallContent(FN_RUN, ARGS_CMD_MULTILINE, <<"2">>),
      ToolCallContent(FN_RUN, ARGS_NOT_JSON, <<"3">>),
      ToolResponseContent(<<"1">>, FN_LS, <<"a", ".", "t">>) }

Roles == {"user", "assistant"}

Messages ==
    { Message(role, content, c, v, f) :
        role \in Roles, content \in SeqUpTo(Blocks, MaxBlocks),
        c \in BOOLEAN, v \in BOOLEAN, f \in BOOLEAN }

ArgumentStrings ==
    { ARGS_EMPTY, ARGS_A_STR, ARGS_A_INT, ARGS_A_TRUE, ARGS_CMD_MULTILINE,
      ARGS_TWO_PARAMS, ARGS_TAGS_IN_VALUE, ARGS_ARRAY, ARGS_NOT_JSON }

ToolCalls ==
    { ToolCallContent(name, arguments, <<"1">>) :
        name \in {FN_LS, FN_RUN}, arguments \in ArgumentStrings }

\* the outcome of a call that has not been made or has not finished
Pending == [pending |-> TRUE]

---------------------------------------------------------------------------
(* The rewriter as a state machine, one process per invocation *)

Invocations == DOMAIN messages

\* mutation of FlagSlot: one module-level flag for all invocations
FlagSlotShared(p) == 1

\* where invocation p keeps first_user_message_encountered: its own frame
FlagSlot(p) == p

\* mutation of CallerListAfter: the system suffix is written into the raw message
CallerListAfterInPlace(list, i, suffix) ==
    IF list[i].role = "system" /\ "content" \in DOMAIN list[i]
       /\ list[i].content.t = "str"
    THEN [list EXCEPT ![i].content = Str(list[i].content.v \o suffix)]
    ELSE list

\* the caller's list after iteration i: the loop reads it and assigns nothing
CallerListAfter(list, i, suffix) == list

RewriterIdle ==
    /\ messages = <<>> /\ tools = <<>> /\ pc = <<>> /\ pos = <<>>
    /\ system_prompt_suffix = <<>> /\ converted_messages = <<>>
    /\ first_user_message_encountered = <<>> /\ result = <<>>

SerializerIdle == message = None /\ serialized = Pending

CodecIdle == tool_call = <<>> /\ encoded = <<>>

RewriterInit(callers, lists, toolLists) ==
    /\ messages \in [callers -> lists]
    /\ tools \in [callers -> toolLists]
    /\ pc = [p \in callers |-> "call"]
    /\ pos = [p \in callers |-> 0]
    /\ system_prompt_suffix = [p \in callers |-> <<>>]
    /\ converted_messages = [p \in callers |-> <<>>]
    /\ first_user_message_encountered = [p \in callers |-> FALSE]
    /\ result = [p \in callers |-> Pending]

\* entry: formatted_tools, system_prompt_suffix, the two locals
Begin(p) ==
    /\ pc[p] = "call"
    /\ LET formatted_tools == _tools_to_description(tools[p])
       IN IF formatted_tools.ok
          THEN /\ system_prompt_suffix' =
                    [system_prompt_suffix EXCEPT
                        ![p] = SYSTEM_PROMPT_SUFFIX_TEMPLATE_format(formatted_tools.value)]
               /\ converted_messages' = [converted_messages EXCEPT ![p] = <<>>]
               /\ first_user_message_encountered' =
                    [first_user_message_encountered EXCEPT ![FlagSlot(p)] = FALSE]
               /\ pos' = [pos EXCEPT ![p] = 1]
               /\ pc' = [pc EXCEPT ![p] = "loop"]
               /\ UNCHANGED result
          ELSE /\ pc' = [pc EXCEPT ![p] = "raised"]
               /\ result' = [result EXCEPT ![p] = formatted_tools]
               /\ UNCHANGED <<system_prompt_suffix, converted_messages,
                              first_user_message_encountered, pos>>
    /\ UNCHANGED <<messages, tools, serializerVars, codecVars>>

\* one iteration of the loop
LoopStep(p) ==
    /\ pc[p] = "loop"
    /\ pos[p] <= Len(messages[p])
    /\ LET body == LoopBody(messages[p][pos[p]],
                            first_user_message_encountered[FlagSlot(p)],
                            system_prompt_suffix[p])
       IN /\ first_user_message_encountered' =
                [first_user_message_encountered EXCEPT
                    ![FlagSlot(p)] = body.encountered]
          /\ messages' = [messages EXCEPT
                            ![p] = CallerListAfter(messages[p], pos[p],
                                                   system_prompt_suffix[p])]
          /\ IF body.outcome.ok
             THEN /\ converted_messages' =
                        [converted_messages EXCEPT ![p] = @ \o body.outcome.value]
                  /\ pos' = [pos EXCEPT ![p] = @ + 1]
                  /\ UNCHANGED <<pc, result>>
             ELSE /\ pc' = [pc EXCEPT ![p] = "raised"]
                  /\ result' = [result EXCEPT ![p] = body.outcome]
                  /\ UNCHANGED <<converted_messages, pos>>
    /\ UNCHANGED <<tools, system_prompt_suffix, serializerVars, codecVars>>

\* return converted_messages
Return(p) ==
    /\ pc[p] = "loop"
    /\ pos[p] > Len(messages[p])
    /\ pc' = [pc EXCEPT ![p] = "returned"]
    /\ result' = [result EXCEPT ![p] = Ok(List(converted_messages[p]))]
    /\ UNCHANGED <<messages, tools, pos, system_prompt_suffix, converted_messages,
                   first_user_message_encountered, serializerVars, codecVars>>

Init ==
    /\ RewriterInit({1}, SeqUpTo(RawMessages, MaxLen), ToolLists)
    /\ SerializerIdle /\ CodecIdle

Next == \E p \in Invocations : Begin(p) \/ LoopStep(p) \/ Return(p)

Spec == Init /\ [][Next]_vars

InitConc ==
    /\ RewriterInit({1, 2}, SeqUpTo(ConcMessages, MaxLenConc), ConcToolLists)
    /\ SerializerIdle /\ CodecIdle

SpecConc == InitConc /\ [][Next]_vars

---------------------------------------------------------------------------
(* Serializing one Message *)

Serialize ==
    /\ serialized = Pending
    /\ serialized' = Message_serialize_model(message)
    /\ UNCHANGED <<message, rewriterVars, codecVars>>

InitSer ==
    /\ message \in Messages
    /\ serialized = Pending
    /\ RewriterIdle /\ CodecIdle

NextSer == Serialize

SpecSer == InitSer /\ [][NextSer]_vars

---------------------------------------------------------------------------
(* Encoding tool calls as text *)

Encode(k) ==
    /\ encoded[k] = Pending
    /\ encoded' = [encoded EXCEPT ![k] = ToolCallContent_to_string_format(tool_call[k])]
    /\ UNCHANGED <<tool_call, rewriterVars, serializerVars>>

InitCodec ==
    /\ tool_call \in [1..2 -> ToolCalls]
    /\ encoded = [k \in 1..2 |-> Pending]
    /\ RewriterIdle /\ SerializerIdle

NextCodec == \E k \in DOMAIN tool_call : Encode(k)

SpecCodec == InitCodec /\ [][NextCodec]_vars

---------------------------------------------------------------------------
(* Properties of the rewriter *)

\* index of the earliest raw message with role 'user', 0 when there is none
FirstUserIndex(list) ==
    LET users == {i \in 1..Len(list) : list[i].role = "user"}
    IN IF users = {} THEN 0 ELSE CHOOSE i \in users : \A j \in users : i <= j

ExampleMarkers ==
    {IN_CONTEXT_LEARNING_EXAMPLE_PREFIX[1], IN_CONTEXT_LEARNING_EXAMPLE_SUFFIX[1]}

HasMarker(text) == \E k \in 1..Len(text) : text[k] \in ExampleMarkers

\* the entry carries in-context-example text
Injected(entry) ==
    /\ "content" \in DOMAIN entry
    /\ \/ entry.content.t = "str" /\ HasMarker(entry.content.v)
       \/ /\ entry.content.t = "list"
          /\ \E k \in 1..Len(entry.content.v) :
                /\ entry.content.v[k].type = "text"
                /\ HasMarker(entry.content.v[k].text)

\* the entry is a string-content record that starts with the example prefix
\* and ends with the example suffix
Wrapped(entry) ==
    /\ entry.content.t = "str"
    /\ Len(entry.content.v) >= 2
    /\ entry.content.v[1] = IN_CONTEXT_LEARNING_EXAMPLE_PREFIX[1]
    /\ entry.content.v[Len(entry.content.v)] = IN_CONTEXT_LEARNING_EXAMPLE_SUFFIX[1]

\* C1: in one invocation, of the entries converted so far exactly the one of
\* the earliest 'user' message is wrapped with the example prefix and suffix;
\* every later 'user' message is output as it came in, and a list without a
\* 'user' message gets no injection.
C1_OnlyFirstUserWrapped ==
    \A p \in Invocations :
        pc[p] \in {"loop", "returned"} =>
            \A i \in 1..Len(converted_messages[p]) :
                LET raw == messages[p][i]
                    out == converted_messages[p][i]
                IN /\ Injected(out) <=> i = FirstUserIndex(messages[p])
                   /\ i = FirstUserIndex(messages[p]) => Wrapped(out)
                   /\ raw.role = "user" /\ i # FirstUserIndex(messages[p])
                        => out = raw

C1_Witness ==
    /\ pc[1] = "returned"
    /\ Len(messages[1]) = 3
    /\ messages[1][1].role = "user"
    /\ messages[1][2].role = "assistant"
    /\ messages[1][3].role = "user"
    /\ Wrapped(result[1].value.v[1])

\* an assistant raw message whose tool_calls has zero or several entries
Offending(raw) ==
    /\ raw.role = "assistant"
    /\ "tool_calls" \in DOMAIN raw
    /\ Len(raw.tool_calls) # 1

\* C2: an invocation never gets past an assistant message whose tool_calls
\* has zero or several entries: it raises the cardinality error there and
\* hands back no list.
C2_CardinalityErrorAborts ==
    \A p \in Invocations :
        /\ pc[p] = "raised" => ~result[p].ok
        /\ \A k \in 1..Len(messages[p]) :
              Offending(messages[p][k]) =>
                /\ pc[p] # "returned"
                /\ pos[p] <= k
                /\ result[p] # Pending /\ pos[p] = k =>
                      result[p] =
                        Raise("ValueError",
                              <<"Expected exactly one tool call, got ",
                                ToString(Len(messages[p][k].tool_calls))>>)

C2_Witness ==
    /\ pc[1] = "raised"
    /\ pos[1] = 2
    /\ Len(converted_messages[1]) = 1
    /\ Offending(messages[1][2])
    /\ Len(messages[1][2].tool_calls) = 2
    /\ result[1].error.type = "ValueError"

\* C4: with two invocations interleaved in any order, each one starts its
\* loop with the flag unset, wraps the first user message of its own list,
\* and ends with the outcome it has when run alone.
C4_InvocationsIndependent ==
    \A p \in Invocations :
        /\ pc[p] = "loop" /\ pos[p] = 1 => ~first_user_message_encountered[p]
        /\ pc[p] \in {"returned", "raised"} =>
              result[p] = convert_messages_to_non_native(messages[p], tools[p])
        /\ pc[p] = "returned" /\ FirstUserIndex(messages[p]) # 0 =>
              Wrapped(result[p].value.v[FirstUserIndex(messages[p])])

C4_Witness ==
    /\ pc[1] = "returned" /\ pc[2] = "returned"
    /\ Len(messages[1]) = 2 /\ Len(messages[2]) = 2
    /\ messages[1][1].role = "user" /\ messages[1][2].role = "user"
    /\ messages[2][1].role = "system" /\ messages[2][2].role = "user"
    /\ Wrapped(result[2].value.v[2])

\* C5: the entries converted so far are one-to-one with the raw messages
\* read so far, and a returned list has the length, the order and the roles
\* of the input list.
C5_OneToOne ==
    \A p \in Invocations :
        /\ pc[p] = "loop" => Len(converted_messages[p]) = pos[p] - 1
        /\ pc[p] = "returned" =>
              /\ result[p].ok
              /\ Len(result[p].value.v) = Len(messages[p])
              /\ \A i \in 1..Len(messages[p]) :
                    result[p].value.v[i].role = messages[p][i].role

C5_Witness ==
    /\ pc[1] = "returned"
    /\ Len(result[1].value.v) = 3
    /\ messages[1][1].role = "assistant" /\ "tool_calls" \notin DOMAIN messages[1][1]
    /\ messages[1][2].role = "assistant" /\ "tool_calls" \in DOMAIN messages[1][2]
    /\ messages[1][3].role = "tool"

\* C9: no step of an invocation, successful or failed, changes the caller's
\* message list, a raw message in it, or the tool schema list.
C9_CallerDataUntouched == [][messages' = messages /\ tools' = tools]_vars

C9_Witness ==
    /\ pc[1] = "returned"
    /\ Len(messages[1]) = 2
    /\ messages[1][1].role = "system" /\ messages[1][1].content.t = "str"
    /\ messages[1][2].role = "assistant"
    /\ result[1].value.v[2] = messages[1][2]

\* the raw message at index i is one the rewriter builds a Message for
Built(list, i) ==
    \/ list[i].role \in {"system", "tool"}
    \/ i = FirstUserIndex(list)
    \/ list[i].role = "assistant" /\ "tool_calls" \in DOMAIN list[i]

\* the texts of the text items of a raw content list, in order
RECURSIVE ItemTexts(_)
ItemTexts(items) ==
    IF items = <<>> THEN <<>>
    ELSE (IF Head(items).type = "text" THEN <<Head(items).text>> ELSE <<>>)
         \o ItemTexts(Tail(items))

\* the URLs of the image items of a raw content list
ItemUrls(items) ==
    {items[k].image_url.url[1] : k \in {j \in 1..Len(items) : items[j].type # "text"}}

\* C10: every entry the rewriter builds has a single string as content; for
\* list-form system or first-user content the string is the text items, with
\* the system suffix after them or the example prefix and suffix around them,
\* joined by newlines in order, and no image item is in it.
C10_BuiltEntriesAreStrings ==
    \A p \in Invocations :
        pc[p] \in {"loop", "returned"} =>
            \A i \in 1..Len(converted_messages[p]) :
                LET raw == messages[p][i]
                    out == converted_messages[p][i]
                    listForm == "content" \in DOMAIN raw /\ raw.content.t = "list"
                IN Built(messages[p], i) =>
                    /\ DOMAIN out = {"role", "content"}
                    /\ out.content.t = "str"
                    /\ listForm /\ raw.role = "system" =>
                          out.content.v =
                            Join(ItemTexts(raw.content.v)
                                 \o <<system_prompt_suffix[p]>>, <<NL>>)
                    /\ listForm /\ raw.role = "user" =>
                          out.content.v =
                            Join(<<IN_CONTEXT_LEARNING_EXAMPLE_PREFIX>>
                                 \o ItemTexts(raw.content.v)
                                 \o <<IN_CONTEXT_LEARNING_EXAMPLE_SUFFIX>>, <<NL>>)
                    /\ listForm /\ raw.role \in {"system", "user"} =>
                          \A k \in 1..Len(out.content.v) :
                              out.content.v[k] \notin ItemUrls(raw.content.v)

C10_Witness ==
    /\ pc[1] = "returned"
    /\ Len(messages[1]) = 2
    /\ messages[1][1].role = "system" /\ messages[1][1].content.t = "list"
    /\ messages[1][2].role = "user" /\ "content" \in DOMAIN messages[1][2]
    /\ messages[1][2].content.t = "list"
    /\ result[1].value.v[2].content.t = "str"

---------------------------------------------------------------------------
(* Properties of the serializer *)

HasToolCall(m) == \E i \in 1..Len(m.content) : m.content[i].type = "tool_call"

TextOnly(m) == \A i \in 1..Len(m.content) : m.content[i].type = "text"

\* C6: in native mode a message holding a ToolCall block serializes to
\* exactly role, content = null and a one-entry tool_calls list built from
\* the earliest ToolCall block, whatever the cache and vision flags and the
\* other blocks are.
C6_NativeToolCallShortCircuit ==
    serialized # Pending /\ message.function_calling_enabled /\ HasToolCall(message) =>
        \E i \in 1..Len(message.content) :
            /\ message.content[i].type = "tool_call"
            /\ \A j \in 1..(i - 1) : message.content[j].type # "tool_call"
            /\ serialized.ok
            /\ serialized.value =
                  [role |-> message.role,
                   content |-> None,
                   tool_calls |->
                      <<[id |-> message.content[i].tool_call_id,
                         type |-> "function",
                         function |->
                            [name |-> message.content[i].function_name,
                             arguments |-> message.content[i].function_arguments]]>>]

C6_Witness ==
    /\ serialized # Pending
    /\ message.function_calling_enabled /\ message.cache_enabled
    /\ Len(message.content) = 2
    /\ message.content[1].type = "tool_call"
    /\ message.content[2].type = "tool_call"
    /\ message.content[1] # message.content[2]
    /\ serialized.value.tool_calls[1].id = message.content[1].tool_call_id

\* C7: a message of Text blocks only serializes to role plus content, where
\* content is the list of text fragments in block order exactly when
\* cacheEnabled or visionEnabled holds and the newline-joined block texts
\* otherwise, for functionCallingEnabled true and false alike.
C7_TextFormatMatrix ==
    serialized # Pending /\ TextOnly(message) =>
        /\ serialized.ok
        /\ DOMAIN serialized.value = {"role", "content"}
        /\ serialized.value.role = message.role
        /\ IF message.cache_enabled \/ message.vision_enabled
           THEN /\ serialized.value.content.t = "list"
                /\ Len(serialized.value.content.v) = Len(message.content)
                /\ \A i \in 1..Len(message.content) :
                      LET fragment == serialized.value.content.v[i]
                      IN /\ fragment.type = "text"
                         /\ fragment.text = message.content[i].text
                         /\ DOMAIN fragment \subseteq {"type", "text", "cache_control"}
                         /\ "cache_control" \in DOMAIN fragment
                              <=> message.content[i].cache_prompt
           ELSE /\ serialized.value.content.t = "str"
                /\ serialized.value.content.v =
                      Join([i \in 1..Len(message.content) |-> message.content[i].text],
                           <<NL>>)

C7_Witness ==
    /\ serialized # Pending
    /\ Len(message.content) = 2 /\ TextOnly(message)
    /\ message.cache_enabled /\ ~message.vision_enabled
    /\ message.function_calling_enabled
    /\ serialized.value.content.t = "list"

---------------------------------------------------------------------------
(* Properties of the function-call text encoding *)

\* C3: encoding a ToolCall whose arguments are not valid JSON fails with a
\* FunctionCallConversionError that carries the argument string.
C3_MalformedArgumentsError ==
    \A k \in DOMAIN tool_call :
        encoded[k] # Pending /\ ~json_loads(tool_call[k].function_arguments).ok =>
            encoded[k] =
                Raise("FunctionCallConversionError",
                      <<"Failed to parse arguments as JSON. Arguments: ">>
                      \o tool_call[k].function_arguments)

IsJsonObject(arguments) ==
    json_loads(arguments).ok /\ json_loads(arguments).value.t = "dict"

\* C8: two different (name, arguments object) pairs never encode to the same
\* text, as decoding the text back to the pair it came from requires.
C8_EncodingRecoverable ==
    /\ encoded[1] # Pending /\ encoded[2] # Pending
    /\ IsJsonObject(tool_call[1].function_arguments)
    /\ IsJsonObject(tool_call[2].function_arguments)
    /\ \/ tool_call[1].function_name # tool_call[2].function_name
       \/ json_loads(tool_call[1].function_arguments)
            # json_loads(tool_call[2].function_arguments)
    => encoded[1] # encoded[2]

====
